---- MODULE Spec2Model ----
(***************************************************************************)
(* A model of scripts/auto_update_submodule.py: the orchestrator that tags *)
(* the primary repository and synchronizes the sibling repositories that  *)
(* embed it as the submodule "src".                                       *)
(*                                                                         *)
(* Strings are sequences of one-character strings.  Every git command is  *)
(* one step; a strict command (run) either succeeds with its effect or    *)
(* fails with an exit code of ErrCodes and no effect.  Probes (run_safe,  *)
(* subprocess.run) never fail: they report the state of the tree.         *)
(***************************************************************************)
EXTENDS Integers, Sequences, FiniteSets, TLC

VARIABLES
    version,        \* args.version: None or a string
    repo_list,      \* repo_list of main / repos of update_sibling_repos
    tag,            \* the tag parameter of update_sibling_repos
    pc,             \* the statement about to execute
    idx,            \* position of the for loop in repos (1-based)
    stash_created,  \* local of update_sibling_repos
    has_change,     \* local of update_sibling_repos
    pending,        \* exit code of the SystemExit in flight in the try block (0: none)
    exitCode,       \* the process's exit code once pc = "done"
    v_tags,         \* local of main: the well-formed tags, sorted at line 173
    newest_tag,     \* local of main
    log,            \* every command executed, in order
    console,        \* the per-repository reports printed
    primary,        \* the primary repository: local tags, pushed state, checkout
    exists,         \* the sibling directories that exist
    wt,             \* per sibling: uncommitted changes, a set of <<file, kind>>
    stash,          \* per sibling: the stash stack, newest entry first
    headPtr,        \* per sibling: submodule pointer of the last commit
    idxPtr,         \* per sibling: submodule pointer in the index
    subPtr,         \* per sibling: commit checked out in the submodule
    commits,        \* per sibling: messages of the commits created, in order
    before,         \* per sibling: wt when the run started
    file_text,      \* add_newlines: the text of the file at file_path
    file_msg        \* add_newlines: what process_file printed

vars == <<version, repo_list, tag, pc, idx, stash_created, has_change, pending,
          exitCode, v_tags, newest_tag, log, console, primary, exists, wt,
          stash, headPtr, idxPtr, subPtr, commits, before, file_text, file_msg>>

-----------------------------------------------------------------------------
(* Bounds and inputs *)

MaxRepos == 3

Names == {"a", "b", "c"}

\* Exit codes of a failing git command.
ErrCodes == {1, 128}

None == <<"None">>

TagGood == <<"v", "1", ".", "0", ".", "0">>
TagShort == <<"v", "1", ".", "0">>
TagNoV == <<"1", ".", "0", ".", "0">>
TagNew == <<"v", "1", ".", "1", "0", ".", "0">>
TagMid == <<"v", "1", ".", "2", ".", "0">>
TagRc == <<"v", "1", ".", "0", ".", "0", "-", "r", "c">>
TagPadded == <<"v", "0", "1", ".", "2", ".", "0">>
\* v1.2.0 with its first digit written as ARABIC-INDIC DIGIT ONE
TagWide == <<"v", "U+0661", ".", "2", ".", "0">>

\* What -v/--version can carry.
Versions == {None, <<>>, TagGood, TagShort, TagNoV}

\* Lists of names up to renaming: the first occurrences appear in the order a, b, c.
Rank(n) == CASE n = "a" -> 1 [] n = "b" -> 2 [] OTHER -> 3

Canonical(s) ==
    \A i \in 1..Len(s) :
        Rank(s[i]) <= 1 + Cardinality({Rank(s[j]) : j \in 1..(i - 1)})

RepoLists ==
    {s \in UNION {[1..n -> Names] : n \in 0..MaxRepos} : Canonical(s)}

\* Output of "git tag" in the primary repository, one tag per line.
TagListings ==
    {<<>>, <<TagRc>>, <<TagGood>>, <<TagNew, TagMid, TagRc>>, <<TagMid, TagNew>>,
     <<TagGood, TagWide>>}

\* The strings -v/--version can carry when only the validation of lines
\* 149-154 is looked at: every string of up to MaxLen characters of Alphabet,
\* and four longer ones.
MaxLen == 6

Alphabet == {"v", "0", "1", ".", "-", "c"}

Tag123 == <<"v", "1", ".", "2", ".", "3">>
Tag12 == <<"v", "1", ".", "2">>
TagBare == <<"1", ".", "2", ".", "3">>
Tag123Rc1 == <<"v", "1", ".", "2", ".", "3", "-", "r", "c", "1">>

SemverInputs ==
    UNION {[1..n -> Alphabet] : n \in 0..MaxLen}
        \cup {Tag123, Tag12, TagBare, Tag123Rc1, TagPadded}

\* The tags a repository may hold when only the selection of lines 165-174
\* is looked at, and the listings "git tag" may print for them.
MaxTags == 3

TagPool == {TagGood, TagNew, TagMid, TagPadded, TagWide, TagRc}

SortListings ==
    {s \in UNION {[1..n -> TagPool] : n \in 0..MaxTags} :
        \A i, j \in 1..Len(s) : i # j => s[i] # s[j]}

\* The commit the submodule's tracked branch points at, and the one before it.
Tip == "tip"
Old == "old"

\* A stash entry a user left in a sibling before the run.
UserStash == {<<"u", "unstaged">>}

Changes ==
    {{}, {<<"f", "staged">>}, {<<"g", "unstaged">>}, {<<"h", "untracked">>}}

-----------------------------------------------------------------------------
(* The tag validator and selector *)

AsciiDigits == {"0", "1", "2", "3", "4", "5", "6", "7", "8", "9"}

\* \d of a str pattern matches every Unicode decimal digit, and int() reads
\* them all; U+0661, the one character "ARABIC-INDIC DIGIT ONE", stands for
\* the digits outside ASCII.
Digits == AsciiDigits \cup {"U+0661"}

\* s[i..] starts with a non-empty run of digits: the index after the run, else 0.
RECURSIVE DigitRun(_, _)
DigitRun(s, i) ==
    IF i > Len(s) \/ s[i] \notin Digits THEN 0
    ELSE IF i + 1 <= Len(s) /\ s[i + 1] \in Digits THEN DigitRun(s, i + 1)
    ELSE i + 1

\* Mutant of is_semver: re.match in place of re.fullmatch.
is_semver_prefix(s) ==
    /\ Len(s) >= 1
    /\ s[1] = "v"
    /\ LET a == DigitRun(s, 2) IN
       /\ a # 0 /\ a <= Len(s) /\ s[a] = "."
       /\ LET b == DigitRun(s, a + 1) IN
          /\ b # 0 /\ b <= Len(s) /\ s[b] = "."
          /\ DigitRun(s, b + 1) # 0

\* re.fullmatch(r"v\d+\.\d+\.\d+", tag): a scan from the left, each \d+
\* taking the longest run of digits (a shorter run cannot match either, for
\* the character after it would be a digit where "." or the end is due).
is_semver(s) ==
    /\ Len(s) >= 1
    /\ s[1] = "v"
    /\ LET a == DigitRun(s, 2) IN
       /\ a # 0 /\ a <= Len(s) /\ s[a] = "."
       /\ LET b == DigitRun(s, a + 1) IN
          /\ b # 0 /\ b <= Len(s) /\ s[b] = "."
          /\ LET c == DigitRun(s, b + 1) IN
             c = Len(s) + 1

DigitVal(c) ==
    CASE c = "0" -> 0 [] c \in {"1", "U+0661"} -> 1 [] c = "2" -> 2 [] c = "3" -> 3
      [] c = "4" -> 4 [] c = "5" -> 5 [] c = "6" -> 6 [] c = "7" -> 7
      [] c = "8" -> 8 [] OTHER -> 9

\* int() of the digits s[i..j-1]
RECURSIVE IntOf(_, _, _)
IntOf(s, i, j) ==
    IF j <= i THEN 0 ELSE IntOf(s, i, j - 1) * 10 + DigitVal(s[j - 1])

\* list(map(int, s.lstrip("v").split("."))) of a well-formed tag
SortKey(s) ==
    LET a == DigitRun(s, 2)
        b == DigitRun(s, a + 1)
        c == DigitRun(s, b + 1)
    IN <<IntOf(s, 2, a), IntOf(s, a + 1, b), IntOf(s, b + 1, c)>>

\* Mutant of KeyLess: only the major numbers are compared.
KeyLessMajorOnly(k, l) == k[1] < l[1]

\* Python's order of two lists of three integers
KeyLess(k, l) ==
    \/ k[1] < l[1]
    \/ k[1] = l[1] /\ k[2] < l[2]
    \/ k[1] = l[1] /\ k[2] = l[2] /\ k[3] < l[3]

\* list.sort(key=...): a stable insertion of each element in turn.
RECURSIVE InsertSorted(_, _)
InsertSorted(s, t) ==
    IF s = <<>> THEN <<t>>
    ELSE IF KeyLess(SortKey(t), SortKey(s[Len(s)]))
         THEN Append(InsertSorted(SubSeq(s, 1, Len(s) - 1), t), s[Len(s)])
         ELSE Append(s, t)

RECURSIVE SortTags(_)
SortTags(s) ==
    IF s = <<>> THEN <<>>
    ELSE InsertSorted(SortTags(SubSeq(s, 1, Len(s) - 1)), s[Len(s)])

\* Mutant of VTags: the listing is not filtered.
VTagsUnfiltered(fetched) == fetched

VTags(fetched) == SelectSeq(fetched, is_semver)

Elems(s) == {s[i] : i \in 1..Len(s)}

\* Python's truth value of args.version / tag
Truthy(s) == s # None /\ s # <<>>

-----------------------------------------------------------------------------
(* The command executor and the git commands' effects *)

Primary == "primary"

\* Paths are sequences of components.  os.getcwd() of the primary repository,
\* os.path.dirname of it, and os.path.join(parent_dir, name).
PrimaryPath == <<"work", "primary">>
ParentDir == SubSeq(PrimaryPath, 1, Len(PrimaryPath) - 1)
RepoPath(n) == Append(ParentDir, n)

Entry(pos, repo, cmd, arg, rc, strict) ==
    [pos |-> pos, repo |-> repo, cmd |-> cmd, arg |-> arg, rc |-> rc,
     strict |-> strict]

\* run / run_safe: the command is executed and recorded.
Exec(pos, repo, cmd, arg, rc, strict) ==
    log' = Append(log, Entry(pos, repo, cmd, arg, rc, strict))

Say(pos, text) == console' = Append(console, <<pos, text>>)

\* "git diff --cached --quiet": 1 when the index differs from the last commit.
StagedDiff(r) ==
    IF idxPtr[r] # headPtr[r] \/ \E c \in wt[r] : c[2] = "staged" THEN 1 ELSE 0

\* "git diff --quiet": 1 when the working tree differs from the index.
UnstagedDiff(r) ==
    IF subPtr[r] # idxPtr[r] \/ \E c \in wt[r] : c[2] = "unstaged" THEN 1 ELSE 0

\* "git status --porcelain": the changed paths, empty for a clean tree.
StatusPorcelain(r) ==
    {c[1] : c \in wt[r]}
        \cup (IF idxPtr[r] # headPtr[r] \/ subPtr[r] # idxPtr[r] THEN {"src"} ELSE {})

\* "git stash pop" without --index: staged changes come back unstaged.
Restore(entry) ==
    {<<c[1], IF c[2] = "staged" THEN "unstaged" ELSE c[2]>> : c \in entry}

\* The files with uncommitted changes in the working tree.
Content(w) == {c[1] : c \in w}

\* The commit message of lines 107-111: a prefix followed by the tag, or
\* the generic message when the tag is None or empty.
MsgPrefix == <<"chore:", "template", " ">>
MsgGeneric == <<"chore:", "latest", "template">>
\* Mutant of Message: the tag is left out of the message.
MessageNoTag(t) == MsgGeneric

Message(t) == IF Truthy(t) THEN MsgPrefix \o t ELSE MsgGeneric

-----------------------------------------------------------------------------
(* Control transfer.  Each of these fixes pc, idx, exitCode and pending. *)

sibs == <<exists, wt, stash, headPtr, idxPtr, subPtr, commits, before>>
args == <<version, repo_list>>
picked == <<v_tags, newest_tag>>
files == <<file_text, file_msg>>
locals == <<stash_created, has_change>>

Goto(p) == pc' = p /\ UNCHANGED <<idx, exitCode, pending>>

\* Mutant of Exit: the failure is swallowed and the loop goes on.
ExitContinues(code) == pc' = "for" /\ idx' = idx + 1 /\ UNCHANGED <<exitCode, pending>>

\* sys.exit(code) with no try block around it: the process ends.
Exit(code) == pc' = "done" /\ exitCode' = code /\ UNCHANGED <<idx, pending>>

\* main returns: the process ends with code 0.
Return == pc' = "done" /\ exitCode' = 0 /\ UNCHANGED <<idx, pending>>

\* Mutant of CallSync: the sync is called without the tag.
CallSyncNoTag(t) == tag' = None /\ idx' = 1 /\ pc' = "for" /\ UNCHANGED <<exitCode, pending>>

\* update_sibling_repos(repo_list, t) is entered.
CallSync(t) == tag' = t /\ idx' = 1 /\ pc' = "for" /\ UNCHANGED <<exitCode, pending>>

\* The next iteration of "for name in repos".
NextRepo == pc' = "for" /\ idx' = idx + 1 /\ UNCHANGED <<exitCode, pending>>

\* Mutant of Raise: the pop follows the try block instead of sitting in a
\* finally clause, so a SystemExit skips it.
RaiseNoFinally(code) == pc' = "done" /\ exitCode' = code /\ UNCHANGED <<idx, pending>>

\* Lines 94-121: SystemExit(code) is raised inside the try block; the finally
\* clause runs before it propagates.
Raise(code) ==
    IF stash_created
    THEN pc' = "stash_pop" /\ pending' = code /\ UNCHANGED <<idx, exitCode>>
    ELSE Exit(code)

\* Mutant of LeaveTry: the stash is restored only on the failure path.
LeaveTryNoPop == pc' = "for" /\ idx' = idx + 1 /\ UNCHANGED <<exitCode, pending>>

\* Lines 116-121: the try block completes; the finally clause runs.
LeaveTry == IF stash_created THEN Goto("stash_pop") ELSE NextRepo

-----------------------------------------------------------------------------
(* main *)

\* Line 149, "if args.version:": whether main takes the explicit-tag branch.
ExplicitMode(v) == Truthy(v)

\* A strict command of main fails: run prints the error and exits (lines 27-29).
PrimaryFails(cmd, arg) ==
    \E code \in ErrCodes :
        /\ Exec(0, Primary, cmd, arg, code, TRUE)
        /\ Exit(code)
        /\ UNCHANGED <<args, files, tag, locals, picked, console, primary, sibs>>

\* Lines 148-162: the dispatch on args.version.
Dispatch ==
    /\ pc = "main"
    /\ IF ExplicitMode(version)
       THEN IF ~is_semver(version)
            THEN Exit(2) /\ Say(0, "illegal tag")
            ELSE Goto("git_tag") /\ UNCHANGED console
       ELSE Goto("pull_primary") /\ Say(0, "no tag specified")
    /\ UNCHANGED <<args, files, tag, locals, picked, log, primary, sibs>>

\* Line 52: git tag <tag>
GitTag ==
    /\ pc = "git_tag"
    /\ \/ /\ Exec(0, Primary, "git tag", version, 0, TRUE)
          /\ primary' = [primary EXCEPT !.tags = Append(@, version)]
          /\ Goto("git_push")
          /\ UNCHANGED <<args, files, tag, locals, picked, console, sibs>>
       \/ PrimaryFails("git tag", version)

\* Line 53: git push
GitPush ==
    /\ pc = "git_push"
    /\ \/ /\ Exec(0, Primary, "git push", <<>>, 0, TRUE)
          /\ primary' = [primary EXCEPT !.pushed = TRUE]
          /\ Goto("git_push_tag")
          /\ UNCHANGED <<args, files, tag, locals, picked, console, sibs>>
       \/ PrimaryFails("git push", <<>>)

\* Mutant of GitPushTag: the tag push is not strict; the sync follows a failure.
GitPushTagUnchecked ==
    /\ pc = "git_push_tag"
    /\ \E rc \in {0} \cup ErrCodes :
        /\ Exec(0, Primary, "git push origin", version, rc, TRUE)
        /\ primary' = [primary EXCEPT !.rtags = IF rc = 0 THEN @ \cup {version} ELSE @]
        /\ CallSync(version)
        /\ UNCHANGED <<args, files, locals, picked, console, sibs>>

\* Lines 54 and 157: git push origin <tag>, then the sibling sync with the tag.
GitPushTag ==
    /\ pc = "git_push_tag"
    /\ \/ /\ Exec(0, Primary, "git push origin", version, 0, TRUE)
          /\ primary' = [primary EXCEPT !.rtags = @ \cup {version}]
          /\ CallSync(version)
          /\ UNCHANGED <<args, files, locals, picked, console, sibs>>
       \/ PrimaryFails("git push origin", version)

\* Line 162: git pull in the primary repository
PullPrimary ==
    /\ pc = "pull_primary"
    /\ \/ /\ Exec(0, Primary, "git pull", <<>>, 0, TRUE)
          /\ Goto("fetch_tags")
          /\ UNCHANGED <<args, files, tag, locals, picked, console, primary, sibs>>
       \/ PrimaryFails("git pull", <<>>)

\* Line 163: git fetch --tags brings the remote's tags
FetchTags ==
    /\ pc = "fetch_tags"
    /\ \/ \E listing \in TagListings :
            /\ Exec(0, Primary, "git fetch --tags", <<>>, 0, TRUE)
            /\ primary' = [primary EXCEPT !.tags = listing]
            /\ Goto("list_tags")
            /\ UNCHANGED <<args, files, tag, locals, picked, console, sibs>>
       \/ PrimaryFails("git fetch --tags", <<>>)

\* Mutant of Newest: the first element of the sorted list is taken.
NewestFirst(sorted) == sorted[1]

\* Line 174: v_tags[-1]
Newest(sorted) == sorted[Len(sorted)]

\* Lines 165-174: git tag, the filter, the sort
ListTags ==
    /\ pc = "list_tags"
    /\ \/ /\ Exec(0, Primary, "git tag", <<>>, 0, TRUE)
          /\ LET filtered == VTags(primary.tags) IN
                IF filtered = <<>>
                THEN /\ v_tags' = filtered
                     /\ Return /\ Say(0, "no v-style tags") /\ UNCHANGED newest_tag
                ELSE /\ v_tags' = SortTags(filtered)
                     /\ newest_tag' = Newest(v_tags')
                     /\ Goto("points_at")
                     /\ UNCHANGED console
          /\ UNCHANGED <<args, files, tag, locals, primary, sibs>>
       \/ PrimaryFails("git tag", <<>>)

\* Lines 176-181: git tag --points-at HEAD and the membership test
PointsAt ==
    /\ pc = "points_at"
    /\ \/ \E head_tags \in {<<>>} \cup {<<t>> : t \in Elems(primary.tags)} :
            /\ Exec(0, Primary, "git tag --points-at HEAD", <<>>, 0, TRUE)
            /\ primary' = [primary EXCEPT !.head_tags = head_tags]
            /\ IF newest_tag \in Elems(head_tags)
               THEN CallSync(newest_tag) /\ Say(0, "already on the latest tag")
               ELSE Goto("checkout") /\ Say(0, "newer tag detected") /\ UNCHANGED tag
            /\ UNCHANGED <<args, files, locals, picked, sibs>>
       \/ PrimaryFails("git tag --points-at HEAD", <<>>)

\* Lines 184-185: git checkout <newest_tag>, then the sibling sync
Checkout ==
    /\ pc = "checkout"
    /\ \/ /\ Exec(0, Primary, "git checkout", newest_tag, 0, TRUE)
          /\ primary' = [primary EXCEPT !.checkout = newest_tag,
                                        !.head_tags = <<newest_tag>>]
          /\ CallSync(newest_tag)
          /\ UNCHANGED <<args, files, locals, picked, console, sibs>>
       \/ PrimaryFails("git checkout", newest_tag)

-----------------------------------------------------------------------------
(* update_sibling_repos *)

name == repo_list[idx]

other == <<args, files, tag, picked, primary, exists, before>>

\* A strict command fails before the try block (lines 88 and 91): the process ends.
FailsOutsideTry(cmd) ==
    \E code \in ErrCodes :
        /\ Exec(idx, name, cmd, <<>>, code, TRUE)
        /\ Exit(code)
        /\ UNCHANGED <<other, locals, console, wt, stash, headPtr, idxPtr, subPtr,
                       commits>>

\* A strict command fails inside the try block (lines 95-112).
FailsInTry(cmd, arg) ==
    \E code \in ErrCodes :
        /\ Exec(idx, name, cmd, arg, code, TRUE)
        /\ Raise(code)
        /\ UNCHANGED <<other, locals, console, wt, stash, headPtr, idxPtr, subPtr,
                       commits>>

\* Mutant of SkipMissing: "break" in place of "continue".
SkipBreaks == Return /\ Say(idx, "skipping missing repo")

\* Lines 77-79: the directory is missing; a warning, then "continue".
SkipMissing == NextRepo /\ Say(idx, "skipping missing repo")

\* Lines 75-84: the loop head, the directory test, the skip.
ForRepo ==
    /\ pc = "for"
    /\ IF idx > Len(repo_list)
       THEN Return /\ UNCHANGED <<console, stash_created>>
       ELSE IF name \notin exists
            THEN SkipMissing /\ UNCHANGED stash_created
            ELSE Goto("probe_staged") /\ Say(idx, "updating")
                 /\ stash_created' = FALSE
    /\ UNCHANGED <<other, has_change, log, wt, stash, headPtr, idxPtr, subPtr, commits>>

\* Line 86: run_safe("git diff --cached --quiet")
ProbeStaged ==
    /\ pc = "probe_staged"
    /\ Exec(idx, name, "git diff --cached --quiet", <<>>, StagedDiff(name), FALSE)
    /\ IF StagedDiff(name) # 0
       THEN Goto("stash_push") /\ Say(idx, "stashing")
       ELSE Goto("probe_unstaged") /\ UNCHANGED console
    /\ UNCHANGED <<other, locals, wt, stash, headPtr, idxPtr, subPtr, commits>>

\* Line 87: run_safe("git diff --quiet")
ProbeUnstaged ==
    /\ pc = "probe_unstaged"
    /\ Exec(idx, name, "git diff --quiet", <<>>, UnstagedDiff(name), FALSE)
    /\ IF UnstagedDiff(name) # 0
       THEN Goto("stash_push") /\ Say(idx, "stashing")
       ELSE Goto("status") /\ UNCHANGED console
    /\ UNCHANGED <<other, locals, wt, stash, headPtr, idxPtr, subPtr, commits>>

\* Mutant of Status: the listing is read but never counts as dirty.
StatusNeverDirty ==
    /\ pc = "status"
    /\ \/ /\ Exec(idx, name, "git status --porcelain", <<>>, 0, TRUE)
          /\ Goto("pull") /\ UNCHANGED console
          /\ UNCHANGED <<other, locals, wt, stash, headPtr, idxPtr, subPtr, commits>>
       \/ FailsOutsideTry("git status --porcelain")

\* Line 88: run("git status --porcelain").strip()
Status ==
    /\ pc = "status"
    /\ \/ /\ Exec(idx, name, "git status --porcelain", <<>>, 0, TRUE)
          /\ IF StatusPorcelain(name) # {}
             THEN Goto("stash_push") /\ Say(idx, "stashing")
             ELSE Goto("pull") /\ UNCHANGED console
          /\ UNCHANGED <<other, locals, wt, stash, headPtr, idxPtr, subPtr, commits>>
       \/ FailsOutsideTry("git status --porcelain")

\* Mutant of StashPush: the entry is created and the staged changes stay in
\* the index, as with --keep-index.
StashPushKeepIndex ==
    /\ pc = "stash_push"
    /\ \/ /\ Exec(idx, name, "git stash push -u", <<>>, 0, TRUE)
          /\ IF wt[name] # {}
             THEN /\ stash' = [stash EXCEPT ![name] = <<wt[name]>> \o @]
                  /\ wt' = [wt EXCEPT ![name] = {c \in @ : c[2] = "staged"}]
             ELSE UNCHANGED <<stash, wt>>
          /\ stash_created' = TRUE
          /\ Goto("pull")
          /\ UNCHANGED <<other, has_change, console, headPtr, idxPtr, subPtr, commits>>
       \/ FailsOutsideTry("git stash push -u")

\* Lines 91-92: run("git stash push -u"); stash_created = True.  The stash
\* takes every file change; with none to save it creates no entry.
StashPush ==
    /\ pc = "stash_push"
    /\ \/ /\ Exec(idx, name, "git stash push -u", <<>>, 0, TRUE)
          /\ IF wt[name] # {}
             THEN /\ stash' = [stash EXCEPT ![name] = <<wt[name]>> \o @]
                  /\ wt' = [wt EXCEPT ![name] = {}]
             ELSE UNCHANGED <<stash, wt>>
          /\ stash_created' = TRUE
          /\ Goto("pull")
          /\ UNCHANGED <<other, has_change, console, headPtr, idxPtr, subPtr, commits>>
       \/ FailsOutsideTry("git stash push -u")

\* Mutant of Pull: the submodule update is left out of the sequence.
PullSkipsUpdate ==
    /\ pc = "pull"
    /\ \/ /\ Exec(idx, name, "git pull", <<>>, 0, TRUE)
          /\ Goto("add")
          /\ UNCHANGED <<other, locals, console, wt, stash, headPtr, idxPtr, subPtr,
                         commits>>
       \/ FailsInTry("git pull", <<>>)

\* Line 95: run("git pull")
Pull ==
    /\ pc = "pull"
    /\ \/ /\ Exec(idx, name, "git pull", <<>>, 0, TRUE)
          /\ Goto("submodule_update")
          /\ UNCHANGED <<other, locals, console, wt, stash, headPtr, idxPtr, subPtr,
                         commits>>
       \/ FailsInTry("git pull", <<>>)

\* Line 96: run("git submodule update --remote --recursive")
SubmoduleUpdate ==
    /\ pc = "submodule_update"
    /\ \/ /\ Exec(idx, name, "git submodule update", <<>>, 0, TRUE)
          /\ subPtr' = [subPtr EXCEPT ![name] = Tip]
          /\ Goto("add")
          /\ UNCHANGED <<other, locals, console, wt, stash, headPtr, idxPtr, commits>>
       \/ FailsInTry("git submodule update", <<>>)

\* Line 97: run("git add src")
Add ==
    /\ pc = "add"
    /\ \/ /\ Exec(idx, name, "git add", <<>>, 0, TRUE)
          /\ idxPtr' = [idxPtr EXCEPT ![name] = subPtr[name]]
          /\ Goto("diff_cached")
          /\ UNCHANGED <<other, locals, console, wt, stash, headPtr, subPtr, commits>>
       \/ FailsInTry("git add", <<>>)

\* Mutant of HasChange: the commit is attempted whatever the probe says.
HasChangeAlways(rc) == TRUE

\* Lines 99-104: has_change = (git diff --cached --quiet).returncode != 0
HasChange(rc) == rc # 0

\* Lines 99-115: the cached-diff probe and the branch on has_change
DiffCached ==
    /\ pc = "diff_cached"
    /\ Exec(idx, name, "git diff --cached --quiet",
            <<"has_change", headPtr[name], idxPtr[name]>>, StagedDiff(name), FALSE)
    /\ has_change' = HasChange(StagedDiff(name))
    /\ IF HasChange(StagedDiff(name))
       THEN Goto("commit") /\ UNCHANGED console
       ELSE LeaveTry /\ Say(idx, "no changes")
    /\ UNCHANGED <<other, stash_created, wt, stash, headPtr, idxPtr, subPtr, commits>>

\* Lines 107-113: run('git commit -m "<message>"'); everything staged is committed.
Commit ==
    /\ pc = "commit"
    /\ \/ /\ Exec(idx, name, "git commit", Message(tag), 0, TRUE)
          /\ headPtr' = [headPtr EXCEPT ![name] = idxPtr[name]]
          /\ wt' = [wt EXCEPT ![name] = {c \in @ : c[2] # "staged"}]
          /\ commits' = [commits EXCEPT ![name] = Append(@, Message(tag))]
          /\ LeaveTry /\ Say(idx, "committed")
          /\ UNCHANGED <<other, locals, stash, idxPtr, subPtr>>
       \/ FailsInTry("git commit", Message(tag))

\* Lines 117-121, the finally clause: run("git stash pop").  When it succeeds
\* the SystemExit in flight, if any, propagates; when it fails, its own
\* SystemExit replaces the one in flight.
StashPop ==
    /\ pc = "stash_pop"
    /\ \/ /\ stash[name] # <<>>
          /\ Exec(idx, name, "git stash pop", <<>>, 0, TRUE)
          /\ wt' = [wt EXCEPT ![name] = @ \cup Restore(Head(stash[name]))]
          /\ stash' = [stash EXCEPT ![name] = Tail(@)]
          /\ IF pending = 0 THEN NextRepo ELSE Exit(pending)
          /\ Say(idx, "restoring")
          /\ UNCHANGED <<other, locals, headPtr, idxPtr, subPtr, commits>>
       \/ \E code \in ErrCodes :
            /\ Exec(idx, name, "git stash pop", <<>>, code, TRUE)
            /\ Exit(code)
            /\ Say(idx, "restoring")
            /\ UNCHANGED <<other, locals, wt, stash, headPtr, idxPtr, subPtr, commits>>

-----------------------------------------------------------------------------
(* Specifications *)

\* A sibling as the run finds it: clean or with one kind of uncommitted
\* change, its recorded submodule pointer at the tip or behind it; or with
\* no file changed and the submodule's checkout ahead of the recorded pointer.
Profiles == {p \in [ch : Changes, ptr : {Old, Tip}, sub : {Old, Tip}] :
                p.sub = p.ptr \/ (p.ch = {} /\ p.sub = Tip)}

World(P) ==
    /\ exists \in SUBSET Elems(repo_list)
    /\ \E w \in [Elems(repo_list) -> P] :
        /\ wt = [r \in Names |-> IF r \in exists THEN w[r].ch ELSE {}]
        /\ headPtr = [r \in Names |-> IF r \in exists THEN w[r].ptr ELSE Old]
        /\ subPtr = [r \in Names |-> IF r \in exists THEN w[r].sub ELSE Old]
    /\ idxPtr = headPtr
    /\ stash = [r \in Names |-> IF r \in exists THEN <<UserStash>> ELSE <<>>]
    /\ commits = [r \in Names |-> <<>>]
    /\ before = wt

Start ==
    /\ repo_list \in RepoLists
    /\ idx = 1
    /\ stash_created = FALSE
    /\ has_change = FALSE
    /\ pending = 0
    /\ exitCode = 0
    /\ v_tags = <<>>
    /\ newest_tag = None
    /\ file_text = <<>>
    /\ file_msg = ""
    /\ log = <<>>
    /\ console = <<>>
    /\ primary = [tags |-> <<>>, rtags |-> {}, pushed |-> FALSE,
                  checkout |-> None, head_tags |-> <<>>]

\* The siblings of a run started through main.
MainProfiles ==
    {p \in Profiles : p.ch \in {{}, {<<"g", "unstaged">>}} /\ p.sub = p.ptr}

\* The process is started: main is about to run.
Init ==
    /\ version \in Versions
    /\ tag = None
    /\ pc = "main"
    /\ Start
    /\ World(MainProfiles)

MainNext ==
    \/ Dispatch \/ GitTag \/ GitPush \/ GitPushTag
    \/ PullPrimary \/ FetchTags \/ ListTags \/ PointsAt \/ Checkout

SyncNext ==
    \/ ForRepo \/ ProbeStaged \/ ProbeUnstaged \/ Status \/ StashPush
    \/ Pull \/ SubmoduleUpdate \/ Add \/ DiffCached \/ Commit \/ StashPop

Next == MainNext \/ SyncNext

Spec == Init /\ [][Next]_vars

\* main called with a string for -v/--version and no siblings named.
SemverInit ==
    /\ version \in SemverInputs
    /\ tag = None /\ repo_list = <<>>
    /\ pc = "main"
    /\ idx = 1 /\ stash_created = FALSE /\ has_change = FALSE
    /\ pending = 0 /\ exitCode = 0
    /\ v_tags = <<>> /\ newest_tag = None
    /\ file_text = <<>> /\ file_msg = ""
    /\ log = <<>> /\ console = <<>>
    /\ primary = [tags |-> <<>>, rtags |-> {}, pushed |-> FALSE,
                  checkout |-> None, head_tags |-> <<>>]
    /\ World(MainProfiles)

SemverSpec == SemverInit /\ [][Dispatch]_vars

\* main about to list the tags in auto-detect mode, with no siblings named.
SortInit ==
    /\ version = None /\ tag = None /\ repo_list = <<>>
    /\ pc = "list_tags"
    /\ idx = 1 /\ stash_created = FALSE /\ has_change = FALSE
    /\ pending = 0 /\ exitCode = 0
    /\ v_tags = <<>> /\ newest_tag = None
    /\ file_text = <<>> /\ file_msg = ""
    /\ log = <<Entry(0, Primary, "git pull", <<>>, 0, TRUE),
               Entry(0, Primary, "git fetch --tags", <<>>, 0, TRUE)>>
    /\ console = <<<<0, "no tag specified">>>>
    /\ \E listing \in SortListings :
        primary = [tags |-> listing, rtags |-> {}, pushed |-> FALSE,
                   checkout |-> None, head_tags |-> <<>>]
    /\ World(MainProfiles)

SortSpec == SortInit /\ [][ListTags]_vars

\* update_sibling_repos(repos, None) is called on its own: the "no-arg" mode
\* of its docstring, which main never uses.
SyncInit ==
    /\ version = None
    /\ tag = None
    /\ pc = "for"
    /\ Start
    /\ World(Profiles)

SyncSpec == SyncInit /\ [][SyncNext]_vars

-----------------------------------------------------------------------------
(* scripts/add_newlines.py: process_file.  A text is a sequence of           *)
(* characters, a line a text that ends with "\n" or is the last of its file. *)

MaxChars == 9

FileChars == {"a", " ", "\n"}

Whitespace == {" ", "\n"}

Texts == UNION {[1..n -> FileChars] : n \in 0..MaxChars}

\* f.readlines(): the text cut after each "\n"
RECURSIVE ReadLines(_)
ReadLines(text) ==
    IF text = <<>> THEN <<>>
    ELSE LET hits == {i \in 1..Len(text) : text[i] = "\n"}
             cut == IF hits = {} THEN Len(text)
                    ELSE CHOOSE i \in hits : \A j \in hits : i <= j
         IN <<SubSeq(text, 1, cut)>> \o ReadLines(SubSeq(text, cut + 1, Len(text)))

\* line.strip()
RECURSIVE Strip(_)
Strip(line) ==
    IF line = <<>> THEN <<>>
    ELSE IF line[1] \in Whitespace THEN Strip(Tail(line))
    ELSE IF line[Len(line)] \in Whitespace THEN Strip(SubSeq(line, 1, Len(line) - 1))
    ELSE line

HasContent(line) == Strip(line) # <<>>

\* Line 35
NonBlankLines(lines) == SelectSeq(lines, HasContent)

\* Mutant of is_pair_end: the first line of each pair is taken for its end.
is_pair_start(i) == i % 2 = 0

\* Lines 55-56, i counting from 0 as enumerate does
is_pair_end(i) == (i + 1) % 2 = 0

is_not_last_line(i, non_blank_lines) == (i + 1) < Len(non_blank_lines)

\* Lines 49-60: result_lines after the lines of index 0..n-1 have been handled
RECURSIVE ResultLines(_, _)
ResultLines(non_blank_lines, n) ==
    IF n = 0 THEN <<>>
    ELSE LET i == n - 1 IN
         ResultLines(non_blank_lines, i)
            \o <<non_blank_lines[i + 1]>>
            \o (IF is_pair_end(i) /\ is_not_last_line(i, non_blank_lines)
                THEN <<<<"\n">>>> ELSE <<>>)

\* "".join(lines)
RECURSIVE Join(_)
Join(lines) == IF lines = <<>> THEN <<>> ELSE Head(lines) \o Join(Tail(lines))

\* Lines 29-77
process_file ==
    \/ LET lines == ReadLines(file_text)
           non_blank_lines == NonBlankLines(lines)
       IN IF non_blank_lines = <<>>
          THEN IF lines # <<>>
               THEN file_text' = <<>> /\ file_msg' = "Processed (cleared)"
               ELSE file_text' = file_text
                    /\ file_msg' = "No changes needed (already empty)"
          ELSE LET final_content ==
                       Join(ResultLines(non_blank_lines, Len(non_blank_lines)))
                   original_content == Join(lines)
               IN IF final_content # original_content
                  THEN file_text' = final_content /\ file_msg' = "Processed"
                  ELSE file_text' = file_text /\ file_msg' = "No changes needed"
    \/ \* open(file_path, "r") raises IOError: lines 74-75
       file_text' = file_text /\ file_msg' = "Error"

ProcessFile ==
    /\ process_file
    /\ UNCHANGED <<args, tag, pc, idx, locals, pending, exitCode, picked, log,
                   console, primary, sibs>>

\* No run of the orchestrator; a file of up to MaxChars characters.
FileInit ==
    /\ file_text \in Texts
    /\ file_msg = ""
    /\ version = None /\ tag = None /\ repo_list = <<>>
    /\ pc = "done"
    /\ idx = 1 /\ stash_created = FALSE /\ has_change = FALSE
    /\ pending = 0 /\ exitCode = 0
    /\ v_tags = <<>> /\ newest_tag = None
    /\ log = <<>> /\ console = <<>>
    /\ primary = [tags |-> <<>>, rtags |-> {}, pushed |-> FALSE,
                  checkout |-> None, head_tags |-> <<>>]
    /\ World(MainProfiles)

FileSpec == FileInit /\ [][ProcessFile]_vars

-----------------------------------------------------------------------------
(* Properties *)

LogIdx == 1..Len(log)
Positions == 1..Len(repo_list)

IsCmd(k, c) == log[k].cmd = c
Failed(k) == log[k].strict /\ log[k].rc # 0
IsCachedProbe(k) == IsCmd(k, "git diff --cached --quiet") /\ Len(log[k].arg) = 3
Reported(i, text) == \E n \in 1..Len(console) : console[n] = <<i, text>>
Attempted(i) == \E k \in LogIdx : log[k].pos = i

\* No sibling is in the middle of its sync.
AtRest == pc \in {"for", "done"}

\* C1: in every sibling where git stash push -u succeeded, git stash pop is
\* executed before the synchronizer leaves that sibling, whether the try block
\* completed or a command in it (pull, submodule update, add, commit) failed.
C1_StashPoppedOnEveryExit ==
    \A k \in LogIdx :
        (/\ IsCmd(k, "git stash push -u") /\ log[k].rc = 0
         /\ (pc = "done" \/ idx > log[k].pos))
        => \E l \in LogIdx :
              l > k /\ IsCmd(l, "git stash pop") /\ log[l].pos = log[k].pos

C1_Witness ==
    /\ pc = "done"
    /\ \E k, l, m \in LogIdx :
        /\ k < l /\ l < m
        /\ log[k].pos = log[l].pos /\ log[l].pos = log[m].pos
        /\ IsCmd(k, "git stash push -u") /\ log[k].rc = 0
        /\ IsCmd(l, "git submodule update") /\ Failed(l)
        /\ IsCmd(m, "git stash pop")

\* C2, as claimed: whenever no sync is in progress, every sibling that had
\* uncommitted changes when the run started has the same changes in its
\* working tree, and nothing of them is left in the stash.
C2_ChangesRestoredAlways ==
    AtRest =>
        \A r \in exists :
            before[r] # {} =>
                /\ Content(wt[r]) = Content(before[r])
                /\ stash[r] = <<UserStash>>

PopFailedIn(r) ==
    \E k \in LogIdx : IsCmd(k, "git stash pop") /\ Failed(k) /\ log[k].repo = r

\* C2, amended: whenever no sync is in progress, every sibling that had
\* uncommitted changes when the run started has the same changes in its
\* working tree and none of them in the stash (a staged change comes back
\* unstaged), unless git stash pop failed in it: then the run has ended and
\* the changes are intact in the newest stash entry.
C2_ChangesRestoredOrStashed ==
    AtRest =>
        \A r \in exists :
            before[r] # {} =>
                \/ /\ wt[r] \in {before[r], Restore(before[r])}
                   /\ stash[r] = <<UserStash>>
                \/ /\ PopFailedIn(r)
                   /\ pc = "done"
                   /\ wt[r] = {}
                   /\ Len(stash[r]) = 2
                   /\ stash[r][1] \in {before[r], Restore(before[r])}
                   /\ stash[r][2] = UserStash

C2_Witness ==
    /\ pc = "done"
    /\ \E k, l \in LogIdx :
        /\ k < l /\ log[k].pos = log[l].pos
        /\ IsCmd(k, "git pull") /\ Failed(k)
        /\ IsCmd(l, "git stash pop") /\ log[l].rc = 0
        /\ before[log[k].repo] # {}
        /\ Content(wt[log[k].repo]) = Content(before[log[k].repo])

Outcome(i) ==
    IF Reported(i, "committed") THEN "committed"
    ELSE IF Reported(i, "no changes") THEN "no-change"
    ELSE "none"

\* C3: when the same repository is synchronized twice in one run (the remote
\* does not move during a run), the second sync reports no-change; and git
\* commit is only ever issued after a cached-diff probe that found the staged
\* submodule pointer different from the last commit's.
C3_SecondSyncNoChange ==
    /\ \A i, j \in Positions :
        (/\ i < j /\ repo_list[i] = repo_list[j]
         /\ Outcome(i) # "none" /\ Outcome(j) # "none")
        => Outcome(j) = "no-change"
    /\ \A k \in LogIdx :
        IsCmd(k, "git commit") =>
            \E l \in LogIdx :
                /\ l < k /\ log[l].pos = log[k].pos /\ IsCachedProbe(l)
                /\ log[l].arg[2] # log[l].arg[3]
    /\ pc = "commit" => idxPtr[name] # headPtr[name]

C3_Witness ==
    /\ Len(repo_list) >= 2
    /\ repo_list[1] = repo_list[2]
    /\ Outcome(1) = "committed"
    /\ Outcome(2) = "no-change"

\* C4: once a strict command has failed, in the primary repository or in
\* sibling number i, no command is executed in a later sibling: the only
\* command that may still run is the stash pop of sibling i, and the run
\* ends with a non-zero exit code.
C4_AbortOnFirstFailure ==
    \A k \in LogIdx :
        Failed(k) =>
            /\ \A l \in LogIdx :
                l > k => /\ log[l].pos = log[k].pos
                         /\ log[l].pos >= 1
                         /\ IsCmd(l, "git stash pop")
            /\ pc \in {"stash_pop", "done"}
            /\ pc = "stash_pop" => idx = log[k].pos
            /\ pc = "done" => exitCode # 0

C4_Witness ==
    /\ pc = "done"
    /\ \E k \in LogIdx :
        /\ Failed(k)
        /\ log[k].pos >= 1
        /\ log[k].pos < Len(repo_list)
        /\ repo_list[log[k].pos + 1] \in exists

FirstFailure == CHOOSE k \in LogIdx : Failed(k) /\ \A l \in 1..(k - 1) : ~Failed(l)

\* The run was given an explicit tag that is not well-formed.
MalformedTag == version # None /\ ~is_semver(version)

\* C5, as claimed: a run that ends with a non-zero exit code, other than the
\* 2 of a malformed tag, ends with the exit code of the first strict command
\* that failed, also when the stash pop of the cleanup path fails after it.
C5_ExitCodeOfFirstFailure ==
    (pc = "done" /\ exitCode # 0 /\ ~(MalformedTag /\ log = <<>>)) =>
        /\ \E k \in LogIdx : Failed(k)
        /\ exitCode = log[FirstFailure].rc

\* C6: no command is ever executed against a name whose directory is missing;
\* once the loop has passed such a name a skip has been reported for it; and
\* in a run that ends with no command failed every name whose directory
\* exists has been synchronized, whatever names are missing around it.
C6_MissingSkippedOthersSynced ==
    /\ \A k \in LogIdx :
        log[k].pos >= 1 =>
            /\ log[k].pos \in Positions
            /\ log[k].repo = repo_list[log[k].pos]
            /\ log[k].repo \in exists
    /\ \A i \in Positions :
        (repo_list[i] \notin exists /\ (idx > i \/ (pc = "done" /\ exitCode = 0)))
        => Reported(i, "skipping missing repo")
    /\ (pc = "done" /\ \A k \in LogIdx : ~Failed(k)) =>
        \A i \in Positions :
            repo_list[i] \in exists =>
                \E k \in LogIdx : log[k].pos = i /\ IsCmd(k, "git pull")

C6_Witness ==
    /\ repo_list = <<"a", "b", "c">>
    /\ exists = {"a", "c"}
    /\ pc = "done"
    /\ Reported(2, "skipping missing repo")
    /\ ~Attempted(2)
    /\ \E k, l \in LogIdx :
        /\ k < l
        /\ log[k].pos = 1 /\ IsCmd(k, "git pull")
        /\ log[l].pos = 3 /\ IsCmd(l, "git pull")

\* The place of a command in the sequence of one sibling's sync (the
\* cached-diff probe of line 100 is told from the one of line 86 by what it
\* recorded).
StepOfCmd ==
    [c \in {"git diff --cached --quiet"} |-> 1]
        @@ [c \in {"git diff --quiet"} |-> 2]
        @@ [c \in {"git status --porcelain"} |-> 3]
        @@ [c \in {"git stash push -u"} |-> 4]
        @@ [c \in {"git pull"} |-> 5]
        @@ [c \in {"git submodule update"} |-> 6]
        @@ [c \in {"git add"} |-> 7]
        @@ [c \in {"git commit"} |-> 9]
        @@ [c \in {"git stash pop"} |-> 10]

StepNo(k) == IF IsCachedProbe(k) THEN 8 ELSE StepOfCmd[log[k].cmd]

\* The step that must have been executed, and succeeded, before step n.
StepBefore == <<0, 1, 2, 1, 1, 5, 6, 7, 8, 4>>

\* C7: the commands of the siblings appear in the order of the list with no
\* overlap, and within one sibling in the order staged probe, unstaged probe,
\* status, stash push, pull, submodule update, add, cached-diff probe,
\* commit, stash pop, each one after the step it depends on.  Every command
\* is the newest of the log in the state that follows it, so the property is
\* stated of the newest command against all the earlier ones.
C7_CommandOrder ==
    LET l == Len(log) IN
    (l >= 1 /\ log[l].pos >= 1) =>
        /\ \A k \in 1..(l - 1) :
            /\ log[k].pos <= log[l].pos
            /\ log[k].pos = log[l].pos => StepNo(k) < StepNo(l)
        /\ log[l].cmd \in DOMAIN StepOfCmd
        /\ StepBefore[StepNo(l)] # 0 =>
            \E k \in 1..(l - 1) :
                /\ log[k].pos = log[l].pos
                /\ StepNo(k) = StepBefore[StepNo(l)]
                /\ log[k].strict => log[k].rc = 0
        /\ StepNo(l) = 10 =>
            \E k \in 1..(l - 1) : log[k].pos = log[l].pos /\ StepNo(k) = 5

C7_Witness ==
    /\ \A n \in {1, 4, 5, 6, 7, 8, 9, 10} :
        \E k \in LogIdx : log[k].pos = 1 /\ StepNo(k) = n
    /\ \E k \in LogIdx : log[k].pos = 2 /\ StepNo(k) = 10

\* C8, as claimed: when an explicit tag is supplied that is not well-formed,
\* the empty string included, the run executes no command at all and ends
\* with exit code 2.
C8_MalformedTagExits2 ==
    MalformedTag =>
        /\ log = <<>>
        /\ pc \in {"main", "done"}
        /\ pc = "done" => exitCode = 2

\* The run was given a well-formed explicit tag.
ExplicitRun == ExplicitMode(version) /\ is_semver(version)

PrimaryCmds == <<"git tag", "git push", "git push origin">>

\* C9: in explicit-tag mode the primary repository sees git tag, git push and
\* git push origin <tag> in that order, each only after the one before it
\* succeeded; a sibling command is executed only after all three succeeded;
\* and when one of the pushes fails the run is over with the tag still among
\* the local tags and no sibling command executed.
C9_TagThenPushThenSync ==
    ExplicitRun =>
        /\ \A k \in LogIdx :
            log[k].pos = 0 =>
                /\ k <= 3
                /\ log[k].cmd = PrimaryCmds[k]
                /\ log[k].arg = (IF k = 2 THEN <<>> ELSE version)
                /\ k < Len(log) => log[k].rc = 0
        /\ (pc \notin {"main", "git_tag", "git_push", "git_push_tag", "done"}
            \/ \E k \in LogIdx : log[k].pos >= 1) =>
                /\ Len(log) >= 3
                /\ \A k \in 1..3 : log[k].pos = 0 /\ log[k].rc = 0
        /\ (Len(log) >= 1 /\ log[1].rc = 0) => version \in Elems(primary.tags)
        /\ \A k \in LogIdx :
            (log[k].pos = 0 /\ k >= 2 /\ Failed(k)) =>
                /\ pc = "done"
                /\ Len(log) = k
                /\ version \in Elems(primary.tags)

C9_Witness ==
    /\ ExplicitRun
    /\ pc = "done"
    /\ Len(log) = 3
    /\ Failed(3)
    /\ IsCmd(3, "git push origin")
    /\ version \in Elems(primary.tags)
    /\ \E i \in Positions : repo_list[i] \in exists

\* t occurs in msg as a contiguous run of characters.
Contains(msg, t) ==
    \E i \in 1..(Len(msg) - Len(t) + 1) : SubSeq(msg, i, i + Len(t) - 1) = t

CommitIssuedAfter(k) ==
    \E l \in LogIdx : l > k /\ log[l].pos = log[k].pos /\ IsCmd(l, "git commit")

\* C10: in explicit-tag mode with tag T, in every sibling whose sync reaches
\* the cached-diff probe, git commit is issued if and only if the staged
\* submodule pointer differs from the last commit's, and the message of
\* every commit issued or created contains T.
C10_CommitIffPointerChanged ==
    ExplicitRun =>
        /\ \A k \in LogIdx :
            IsCachedProbe(k) =>
                ((CommitIssuedAfter(k) \/ (pc = "commit" /\ idx = log[k].pos))
                    <=> log[k].arg[2] # log[k].arg[3])
        /\ \A k \in LogIdx :
            IsCmd(k, "git commit") =>
                /\ Contains(log[k].arg, version)
                /\ \E l \in 1..(k - 1) : log[l].pos = log[k].pos /\ IsCachedProbe(l)
        /\ \A r \in Names : \A m \in Elems(commits[r]) : Contains(m, version)

C10_Witness ==
    /\ ExplicitRun
    /\ pc = "done"
    /\ \E k, l \in LogIdx :
        /\ IsCmd(k, "git commit") /\ log[k].rc = 0
        /\ commits[log[k].repo] = <<log[k].arg>>
        /\ Contains(log[k].arg, TagGood)
        /\ IsCachedProbe(l) /\ log[l].pos # log[k].pos
        /\ log[l].arg[2] = log[l].arg[3]
        /\ ~CommitIssuedAfter(l)

\* The run was given no tag (args.version is None or empty).
AutoRun == ~ExplicitMode(version)

\* In auto-detect mode "git tag" is the listing of line 165.
Listed == \E k \in LogIdx : log[k].pos = 0 /\ IsCmd(k, "git tag") /\ log[k].rc = 0

NoneWellFormed == \A t \in Elems(primary.tags) : ~is_semver(t)

\* C11: in auto-detect mode, once the tag listing of the primary repository
\* has been read and holds no well-formed tag, the run is over with exit
\* code 0, the listing was its last command, and neither a checkout nor a
\* command in a sibling has been executed.
C11_NoTagsEndsCleanly ==
    (AutoRun /\ Listed /\ NoneWellFormed) =>
        /\ pc = "done"
        /\ exitCode = 0
        /\ IsCmd(Len(log), "git tag")
        /\ \A k \in LogIdx : log[k].pos = 0 /\ ~IsCmd(k, "git checkout")
        /\ primary.checkout = None
        /\ tag = None

C11_Witness ==
    /\ AutoRun /\ Listed
    /\ primary.tags = <<TagRc>>
    /\ pc = "done"
    /\ exitCode = 0
    /\ \E i \in Positions : repo_list[i] \in exists

\* t is a well-formed tag of the listing and no well-formed tag of the
\* listing has a greater (major, minor, patch).
IsNewestOfListing(t) ==
    /\ t \in Elems(primary.tags)
    /\ is_semver(t)
    /\ \A u \in Elems(primary.tags) :
        is_semver(u) => ~KeyLess(SortKey(t), SortKey(u))

SyncStarted == pc \notin {"main", "pull_primary", "fetch_tags", "list_tags",
                          "points_at", "checkout", "done"}
                  \/ \E k \in LogIdx : log[k].pos >= 1

\* C12, what holds in every state of an auto-detect run: a checkout is the
\* command right after the points-at listing and it checks out the newest
\* tag; every sibling command comes after it; once the sync has started its
\* trigger is the newest well-formed tag of the listing, and the checkout has
\* succeeded exactly when that tag was not among the tags listed at HEAD.
C12_CheckoutBeforeSync ==
    AutoRun =>
        /\ \A k \in LogIdx :
            IsCmd(k, "git checkout") =>
                /\ k >= 2 /\ IsCmd(k - 1, "git tag --points-at HEAD")
                /\ log[k].arg = newest_tag
                /\ \A l \in 1..k : log[l].pos = 0
        /\ pc = "checkout" => newest_tag \notin Elems(primary.head_tags)
        /\ SyncStarted =>
            /\ tag = newest_tag
            /\ IsNewestOfListing(tag)
            /\ tag \in Elems(primary.head_tags)
            /\ \E k \in LogIdx :
                /\ IsCmd(k, "git tag --points-at HEAD") /\ log[k].rc = 0
                /\ \A l \in LogIdx : log[l].pos >= 1 => l > k
            /\ primary.checkout \in {None, newest_tag}
            /\ primary.checkout = newest_tag <=>
                    \E k \in LogIdx : IsCmd(k, "git checkout") /\ log[k].rc = 0

\* C12, what every step of an auto-detect run does: when the points-at
\* listing succeeds, the next statement is the checkout if and only if the
\* newest tag is not in the listing, and otherwise the sync is entered with
\* the newest tag; when the checkout succeeds the sync is entered with it.
C12_CheckoutDecision ==
    /\ (AutoRun /\ pc = "points_at" /\ pc' # "done") =>
        /\ pc' = "checkout" <=> newest_tag \notin Elems(primary'.head_tags)
        /\ pc' # "checkout" => (pc' = "for" /\ idx' = 1 /\ tag' = newest_tag)
        /\ newest_tag' = newest_tag
    /\ (AutoRun /\ pc = "checkout" /\ pc' # "done") =>
        /\ pc' = "for" /\ idx' = 1 /\ tag' = newest_tag
        /\ IsCmd(Len(log), "git tag --points-at HEAD")
        /\ log' = Append(log, Entry(0, Primary, "git checkout", newest_tag, 0, TRUE))

C12_WitnessAtHead ==
    /\ AutoRun
    /\ pc = "done"
    /\ primary.tags = <<TagMid, TagNew>>
    /\ tag = TagNew
    /\ primary.checkout = None
    /\ \E l \in LogIdx : IsCmd(l, "git commit") /\ log[l].rc = 0

\* The (major, minor, patch) of a well-formed tag and the numeric order of
\* two such triples, component by component.
Triple(t) == SortKey(t)

TripleLeq(a, b) ==
    \/ a[1] < b[1]
    \/ a[1] = b[1] /\ a[2] < b[2]
    \/ a[1] = b[1] /\ a[2] = b[2] /\ a[3] <= b[3]

Occurrences(s, t) == Cardinality({i \in 1..Len(s) : s[i] = t})

\* The tag listing has been read and held a well-formed tag.
Sorted == pc = "points_at" /\ IsCmd(Len(log), "git tag")

\* C13: the sorted list of well-formed tags is a permutation of the
\* well-formed tags of the listing, it is ascending by the integer triple
\* compared numerically component by component (v1.2.0 before v1.10.0), and
\* its last element, the newest tag, has the maximum triple of the list.
C13_SortedByTriple ==
    Sorted =>
        /\ Len(v_tags) = Cardinality({i \in 1..Len(primary.tags) : is_semver(primary.tags[i])})
        /\ \A t \in TagPool :
            Occurrences(v_tags, t)
                = (IF is_semver(t) THEN Occurrences(primary.tags, t) ELSE 0)
        /\ \A i, j \in 1..Len(v_tags) :
            i < j => TripleLeq(Triple(v_tags[i]), Triple(v_tags[j]))
        /\ \A i, j \in 1..Len(v_tags) :
            (v_tags[i] = TagNew /\ v_tags[j] = TagMid) => j < i
        /\ newest_tag = v_tags[Len(v_tags)]
        /\ \A i \in 1..Len(v_tags) : TripleLeq(Triple(v_tags[i]), Triple(newest_tag))

C13_Witness ==
    /\ Sorted
    /\ primary.tags = <<TagNew, TagMid, TagGood>>
    /\ v_tags = <<TagGood, TagMid, TagNew>>
    /\ newest_tag = TagNew

\* s is "v", a non-empty run of ASCII digits, ".", a non-empty run, ".", a
\* non-empty run, and nothing else: i and j are the places of the two dots.
WellFormed(s) ==
    \E i, j \in 1..Len(s) :
        /\ s[1] = "v"
        /\ 2 < i /\ i + 1 < j /\ j < Len(s)
        /\ s[i] = "." /\ s[j] = "."
        /\ \A k \in 2..Len(s) : k \notin {i, j} => s[k] \in AsciiDigits

\* C14: for every string over the alphabet v, digits, dot, hyphen and a
\* letter, is_semver is true if and only if the string is "v" followed by
\* three non-empty digit runs separated by single dots with nothing before
\* or after; main goes on to tag the primary repository only with such a
\* string and rejects with exit code 2 only a string that is not one.
C14_SemverIffShape ==
    /\ is_semver(version) <=> WellFormed(version)
    /\ pc = "git_tag" => WellFormed(version)
    /\ pc = "done" => (exitCode = 2 /\ ~WellFormed(version))
    /\ (pc = "main" /\ version # <<>>) =>
        (ENABLED (Dispatch /\ pc' = "git_tag") <=> WellFormed(version))

C14_Witness ==
    /\ version = Tag123
    /\ pc = "git_tag"
    /\ is_semver(Tag123) /\ ~is_semver(Tag12) /\ ~is_semver(TagBare)
    /\ ~is_semver(Tag123Rc1)

\* C15, as claimed: the siblings the run operates on have paths different
\* from each other and from the primary repository's; no sibling path is
\* synchronized twice in one run.
C15_NoPathTwice ==
    /\ \A i, j \in Positions :
        (i < j /\ Attempted(i) /\ Attempted(j)) =>
            RepoPath(repo_list[i]) # RepoPath(repo_list[j])
    /\ \A i \in Positions :
        Attempted(i) => RepoPath(repo_list[i]) # PrimaryPath

\* A line with nothing but whitespace.
Blank(line) == \A i \in 1..Len(line) : line[i] \in Whitespace

ContentLines(text) ==
    LET lines == ReadLines(text)
        RECURSIVE Keep(_)
        Keep(n) == IF n = 0 THEN <<>>
                   ELSE IF Blank(lines[n]) THEN Keep(n - 1)
                   ELSE Append(Keep(n - 1), lines[n])
    IN Keep(Len(lines))

FileMsgsDone ==
    {"Processed", "Processed (cleared)", "No changes needed",
     "No changes needed (already empty)"}

\* The lines of text are the lines c with a line "\n" after every second
\* one; atEnd tells whether that holds of the last line too when it is a
\* second one.
Interleaved(text, c, atEnd) ==
    LET out == ReadLines(text)
        blanks == IF atEnd THEN Len(c) \div 2
                  ELSE IF c = <<>> THEN 0 ELSE (Len(c) - 1) \div 2
    IN /\ Len(out) = Len(c) + blanks
       /\ \A k \in 1..Len(out) :
            IF k % 3 = 0 THEN out[k] = <<"\n">>
            ELSE out[k] = c[k - (k \div 3)]

\* C16, as claimed: a step of process_file that does not fail leaves a file
\* whose lines are the non-blank lines of the input in their order with a
\* blank line after every two of them, and a second step leaves the file as
\* it is.
C16_BlankAfterEveryPairStep ==
    file_msg' \in FileMsgsDone =>
        /\ Interleaved(file_text', ContentLines(file_text), TRUE)
        /\ file_msg \in FileMsgsDone => file_text' = file_text

C16_BlankBetweenPairsStep ==
    file_msg' \in FileMsgsDone =>
        /\ Interleaved(file_text', ContentLines(file_text), FALSE)
        /\ file_msg \in FileMsgsDone =>
            /\ file_text' = file_text
            /\ file_msg' \in {"No changes needed", "No changes needed (already empty)"}

Orderings(s) ==
    {[i \in 1..Len(s) |-> s[p[i]]] :
        p \in {q \in [1..Len(s) -> 1..Len(s)] :
                \A i, j \in 1..Len(s) : i # j => q[i] # q[j]}}

\* C17, as claimed: two distinct well-formed tags of a listing never have the
\* same (major, minor, patch), and the newest tag selected is the same for
\* every ordering of the listing.
C17_NoTiesOrderFree ==
    Sorted =>
        /\ \A i, j \in 1..Len(v_tags) :
            v_tags[i] # v_tags[j] => Triple(v_tags[i]) # Triple(v_tags[j])
        /\ \A s \in Orderings(primary.tags) :
            Newest(SortTags(VTags(s))) = newest_tag

\* At least one of the three checks of lines 85-89 signals a non-clean tree.
Dirty(r) ==
    \/ StagedDiff(r) # 0
    \/ UnstagedDiff(r) # 0
    \/ StatusPorcelain(r) # {}

\* Log entry k is the staged probe of line 86, the first command of a sync.
IsStagedProbe(k) == IsCmd(k, "git diff --cached --quiet") /\ log[k].arg = <<>>

\* The log ends with the checks of sibling idx, each one run only after the
\* ones before it found the tree clean, the last of them being number n.
ChecksUpTo(n) ==
    LET l == Len(log) IN
    /\ l >= n
    /\ \A k \in (l - n + 1)..l : log[k].pos = idx
    /\ \A k \in 1..(l - n) : log[k].pos < idx
    /\ IsStagedProbe(l - n + 1)
    /\ n >= 2 => (log[l - n + 1].rc = 0 /\ IsCmd(l - n + 2, "git diff --quiet"))
    /\ n >= 3 => (log[l - n + 2].rc = 0 /\ IsCmd(l, "git status --porcelain")
                  /\ log[l].rc = 0)

\* C18: git stash push -u is about to be executed in a sibling exactly when
\* one of the three checks, run in the order staged probe, unstaged probe,
\* status listing and stopping at the first that signals, found the tree not
\* clean; a tree that all three found clean goes on to the pull unstashed;
\* and a stash push is in the log before the pull of its sibling, right
\* after the checks.
C18_StashIffDirty ==
    /\ pc = "stash_push" =>
        /\ Dirty(name)
        /\ ~stash_created
        /\ \/ ChecksUpTo(1) /\ log[Len(log)].rc # 0
           \/ ChecksUpTo(2) /\ log[Len(log)].rc # 0
           \/ ChecksUpTo(3) /\ StatusPorcelain(name) # {}
    /\ (pc = "pull" /\ ~stash_created) =>
        /\ ~Dirty(name)
        /\ ChecksUpTo(3)
    /\ (pc = "pull" /\ stash_created) =>
        /\ IsCmd(Len(log), "git stash push -u")
        /\ log[Len(log)].rc = 0 /\ log[Len(log)].pos = idx
    /\ LET l == Len(log) IN
        (l >= 1 /\ IsCmd(l, "git stash push -u")) =>
            /\ l >= 2 /\ log[l - 1].pos = log[l].pos
            /\ \/ IsStagedProbe(l - 1) /\ log[l - 1].rc # 0
               \/ IsCmd(l - 1, "git diff --quiet") /\ log[l - 1].rc # 0
               \/ IsCmd(l - 1, "git status --porcelain") /\ log[l - 1].rc = 0
    /\ LET l == Len(log) IN
        (l >= 1 /\ IsCmd(l, "git pull") /\ log[l].pos >= 1) =>
            /\ l >= 2 /\ log[l - 1].pos = log[l].pos
            /\ \/ IsCmd(l - 1, "git stash push -u") /\ log[l - 1].rc = 0
               \/ IsCmd(l - 1, "git status --porcelain") /\ log[l - 1].rc = 0

C18_Witness ==
    /\ Len(log) >= 9
    /\ before[log[1].repo] = {<<"h", "untracked">>}
    /\ IsStagedProbe(1) /\ log[1].rc = 0
    /\ IsCmd(2, "git diff --quiet") /\ log[2].rc = 0
    /\ IsCmd(3, "git status --porcelain")
    /\ IsCmd(4, "git stash push -u") /\ log[4].rc = 0
    /\ IsCmd(5, "git pull")
    /\ \E k \in LogIdx :
        /\ log[k].pos = 2 /\ IsCmd(k, "git status --porcelain")
        /\ k < Len(log) /\ IsCmd(k + 1, "git pull")

\* C19, as claimed: git stash pop is executed in a sibling only after git
\* stash push succeeded in the same sync and at most once per sync, never
\* when the tree was judged clean or the stash push failed; and the stash
\* entry that was in the sibling before the run is never popped.
C19_OnlyOwnStashPopped ==
    /\ \A k \in LogIdx :
        IsCmd(k, "git stash pop") =>
            /\ \E l \in 1..(k - 1) :
                /\ log[l].pos = log[k].pos
                /\ IsCmd(l, "git stash push -u") /\ log[l].rc = 0
            /\ \A l \in LogIdx :
                (IsCmd(l, "git stash pop") /\ log[l].pos = log[k].pos) => l = k
    /\ pc = "stash_pop" => stash_created
    /\ \A r \in exists :
        /\ stash[r] # <<>>
        /\ stash[r][Len(stash[r])] = UserStash
        /\ wt[r] \cap UserStash = {}

LastBeforeSync == {"git push origin", "git tag --points-at HEAD", "git checkout"}

\* main has called update_sibling_repos.
SyncCalled ==
    \/ pc \in {"for", "probe_staged", "probe_unstaged", "status", "stash_push",
               "pull", "submodule_update", "add", "diff_cached", "commit",
               "stash_pop"}
    \/ \E k \in LogIdx : log[k].pos >= 1

AsciiOnly(s) == \A i \in 1..Len(s) : s[i] \in AsciiDigits \cup {"v", ".", "-"}

====
